---- MODULE Spec2Model ----
(***************************************************************************)
(* A model of pyenv-python: the version resolution chain, the executable   *)
(* locator, the system fallback search, argv0 type detection, command      *)
(* shaping and the pyenv subcommand cache.                                  *)
(*                                                                         *)
(* The environment the program reads (environment variables, argv, the     *)
(* working directory, the filesystem) is state: it is chosen by Init and   *)
(* never written by the program.                                            *)
(*                                                                         *)
(* Representation.                                                          *)
(*   - An OS string / file content is a sequence of bytes; a byte is a     *)
(*     one-character string, or BAD, one byte that is not valid UTF-8.     *)
(*   - A Rust String is a TLA+ string (Decode turns valid bytes into it).  *)
(*   - A path is the sequence of its components from the filesystem root;  *)
(*     <<>> is the root "/" itself.                                         *)
(*   - Option: None / Some(x).  Result: Ok(x) / Err(e).                     *)
(***************************************************************************)
EXTENDS Integers, Sequences, FiniteSets, TLC

VARIABLES
    env,         \* environment variables, argv, cwd, current_exe, cfg(unix)
    fs,          \* filesystem: path -> node, for the paths that exist
    pc,          \* position of the program
    root,        \* Pyenv::new: result of PyenvRoot::new
    version,     \* Pyenv::new: result of root.version()
    python_path, \* Pyenv::new: result of root.python_version_path(&version).check()
    pyenv,       \* Python::new: result of Pyenv::new
    system,      \* result of Python::system
    python,      \* result of Python::new
    program,     \* main: result of Argv0Program::new
    command,     \* main: the Command built by Argv0Program::to_command
    out,         \* main: what was printed, or the error main returned
    cache,       \* CacheBehavior::run: its local Cache
    log,         \* the runs of CacheBehavior::run so far: what each spawned and returned
    action       \* result of Action::from_args

\* the locals of Python::new, of main, and of CacheBehavior::run
resolve_vars == <<root, version, python_path, pyenv, system, python>>
main_vars == <<program, command, out>>
cache_vars == <<cache, log>>
action_vars == <<action>>

vars == <<env, fs, pc, resolve_vars, main_vars, cache_vars, action_vars>>

----------------------------------------------------------------------------
(* Bounds *)

\* deepest working directory: /a/b/... with MaxDepth components
MaxDepth == 3

\* most directories in $PATH
MaxPath == 2
\* runs of the pyenv wrapper in a behaviour
MaxCalls == 3

----------------------------------------------------------------------------
(* Option and Result *)

None == [some |-> FALSE]
Some(x) == [some |-> TRUE, val |-> x]
Ok(x) == [ok |-> TRUE, val |-> x]
Err(e) == [ok |-> FALSE, err |-> e]

\* a local the program has not assigned (yet)
NotRun == [notrun |-> TRUE]
HasRun(r) == "notrun" \notin DOMAIN r

----------------------------------------------------------------------------
(* Bytes and strings *)

BAD == "0xFF"
NL == "\n"
CR == "\r"

IsUtf8(bytes) == \A i \in 1..Len(bytes) : bytes[i] # BAD

RECURSIVE Decode(_)
Decode(bytes) == IF bytes = <<>> THEN "" ELSE bytes[1] \o Decode(Tail(bytes))

----------------------------------------------------------------------------
(* Paths *)

Join(path, name) == Append(path, name)
Parent(path) == IF path = <<>> THEN None ELSE Some(SubSeq(path, 1, Len(path) - 1))
FileName(path) == IF path = <<>> THEN None ELSE Some(path[Len(path)])
\* a walk that stops below the filesystem root
Ancestors_NoRoot(path) == [i \in 1..Len(path) |-> SubSeq(path, 1, Len(path) + 1 - i)]

\* Path::ancestors: the path itself, then each parent, ending with the root
Ancestors(path) == [i \in 1..(Len(path) + 1) |-> SubSeq(path, 1, Len(path) + 1 - i)]

----------------------------------------------------------------------------
(* Filesystem *)

File(r, x, ino, data) == [kind |-> "file", r |-> r, x |-> x, ino |-> ino, data |-> data]
Dir(ino) == [kind |-> "dir", r |-> TRUE, x |-> TRUE, ino |-> ino, data |-> <<>>]

Exists(path) == path \in DOMAIN fs
\* File::open: the path exists and may be read
CanOpen(path) == Exists(path) /\ fs[path].r

----------------------------------------------------------------------------
(* version.rs *)

\* env::var: the variable is absent, or not valid Unicode, or a String
EnvVar(name) ==
    LET v == env[name] IN
    IF ~v.some THEN Err("NotPresent")
    ELSE IF ~IsUtf8(v.val) THEN Err("NotUnicode")
    ELSE Ok(Decode(v.val))

\* the bytes BufRead::read_line consumes: up to and including the first newline
RECURSIVE FirstLineBytes(_)
FirstLineBytes(data) ==
    IF data = <<>> THEN <<>>
    ELSE IF data[1] = NL THEN <<NL>>
    ELSE <<data[1]>> \o FirstLineBytes(Tail(data))

\* BufRead::lines strips the trailing "\n" or "\r\n"
StripNewline(line) ==
    LET n == Len(line) IN
    IF n >= 1 /\ line[n] = NL
        THEN IF n >= 2 /\ line[n - 1] = CR THEN SubSeq(line, 1, n - 2)
             ELSE SubSeq(line, 1, n - 1)
        ELSE line

read_python_version_file(path) ==
    IF ~CanOpen(path) THEN Err("Open")
    ELSE IF fs[path].kind = "dir" THEN Err("IsADirectory")
    ELSE LET line == FirstLineBytes(fs[path].data) IN
         IF line = <<>> THEN Err("NotFound")
         ELSE IF ~IsUtf8(line) THEN Err("InvalidData")
         ELSE Ok(Decode(StripNewline(line)))

\* the loop over cwd.ancestors(), from position i on; flipped back: Ok = found
RECURSIVE local_from(_, _)
local_from(dirs, i) ==
    IF i > Len(dirs) THEN Err("NotFound")
    ELSE LET r == read_python_version_file(Join(dirs[i], ".python-version")) IN
         IF r.ok THEN r ELSE local_from(dirs, i + 1)

from_local_python_version_file_given_cwd(cwd) == local_from(Ancestors(cwd), 1)

from_local_python_version_file ==
    IF ~env.cwd.some THEN Err("CurrentDir")
    ELSE from_local_python_version_file_given_cwd(env.cwd.val)

global_python_version_file_path(r) == Join(r, "version")

from_global_python_version_file(r) ==
    read_python_version_file(global_python_version_file_path(r))

PyenvVersion(v, from) == [version |-> v, from |-> from]

\* a chain that asks the global marker before the local ones
as_result_GlobalBeforeLocal(r) ==
    LET shell == EnvVar("PYENV_VERSION")
        local == from_local_python_version_file
        global == from_global_python_version_file(r)
    IN  IF shell.ok THEN Some(PyenvVersion(shell.val, "Shell"))
        ELSE IF global.ok THEN Some(PyenvVersion(global.val, "Global"))
        ELSE IF local.ok THEN Some(PyenvVersion(local.val, "Local"))
        ELSE None

\* the inverted Results of as_result: the first step that succeeds returns
as_result(r) ==
    LET shell == EnvVar("PYENV_VERSION")
        local == from_local_python_version_file
        global == from_global_python_version_file(r)
    IN  IF shell.ok THEN Some(PyenvVersion(shell.val, "Shell"))
        ELSE IF local.ok THEN Some(PyenvVersion(local.val, "Local"))
        ELSE IF global.ok THEN Some(PyenvVersion(global.val, "Global"))
        ELSE None

pyenv_version(r) == as_result(r)

----------------------------------------------------------------------------
(* lib.rs *)

\* PyenvRoot::new: $PYENV_ROOT, else <home>/.pyenv; it must be a directory
PyenvRoot_new ==
    LET r == IF env.PYENV_ROOT.some THEN Some(env.PYENV_ROOT.val)
             ELSE IF env.HOME.some THEN Some(Join(env.HOME.val, ".pyenv"))
             ELSE None
    IN  IF ~r.some THEN Err([kind |-> "NoEnvVarOrHomeDir"])
        ELSE IF ~Exists(r.val) THEN Err([kind |-> "IOError", root |-> r.val])
        ELSE IF fs[r.val].kind = "dir" THEN Ok([root |-> r.val])
        ELSE Err([kind |-> "NotADir", root |-> r.val])

\* PyenvRoot::version
PyenvRoot_version(self) == pyenv_version(self.root)

\* PathBuf::push of one relative component: pushing "" adds no component
Push(path, component) == IF component = "" THEN path ELSE Append(path, component)

RECURSIVE PushAll(_, _)
PushAll(path, components) ==
    IF components = <<>> THEN path
    ELSE PushAll(Push(path, components[1]), Tail(components))

\* PyenvRoot::python_path: root, then the components, then "python"
PyenvRoot_python_path(self, path_components) ==
    Push(PushAll(self.root, path_components), "python")

PyenvRoot_python_version_path(self, v) ==
    PyenvRoot_python_path(self, <<"versions", v.version, "bin">>)

PyenvRoot_python_shim_path(self) ==
    PyenvRoot_python_path(self, <<"shims">>)

\* is_executable: a regular file with an executable permission bit
IsExecutable(path) == Exists(path) /\ fs[path].kind = "file" /\ fs[path].x

\* a check that forgets is_executable
PythonExecutable_new_NoExecCheck(path) ==
    IF ~CanOpen(path) THEN Err([error |-> "NotFound", path |-> path])
    ELSE Ok([name |-> None, path |-> path, handle |-> fs[path].ino])

\* PythonExecutable::new (UncheckedPythonPath::check): open a handle, then
\* require is_executable; the error comes with the path
PythonExecutable_new(path) ==
    IF ~CanOpen(path) THEN Err([error |-> "NotFound", path |-> path])
    ELSE IF ~IsExecutable(path) THEN Err([error |-> "NotExecutable", path |-> path])
    ELSE Ok([name |-> None, path |-> path, handle |-> fs[path].ino])

\* an equality by path string
PythonExecutable_eq_ByPath(a, b) == a.path = b.path

\* PartialEq for PythonExecutable: the handles alone
PythonExecutable_eq(a, b) == a.handle = b.handle

\* PathBuf::from(argv0): the argv0 strings of the model and the paths they spell
PathBuf_from(arg) ==
    CASE arg = "python" -> <<"python">>
      [] arg = "pip" -> <<"pip">>
      [] arg = "/opt/pp/pip" -> <<"opt", "pp", "pip">>
      [] arg = "/" -> <<>>

\* PythonExecutable::current: argv0's file name, current_exe and its handle
PythonExecutable_current ==
    LET name == IF env.args = <<>> THEN None
                ELSE FileName(PathBuf_from(env.args[1]))
    IN  IF ~env.current_exe.some THEN Err("NoCurrentExe")
        ELSE IF ~CanOpen(env.current_exe.val) THEN Err("NoCurrentExe")
        ELSE Ok([name |-> name, path |-> env.current_exe.val,
                 handle |-> fs[env.current_exe.val].ino])

\* PythonExecutable::name: the name, else the file name of the path
PythonExecutable_name(self) ==
    IF self.name.some THEN self.name.val ELSE FileName(self.path).val

\* the candidates of Python::system that pass check, in $PATH order
RECURSIVE system_candidates(_, _)
system_candidates(dirs, name) ==
    IF dirs = <<>> THEN <<>>
    ELSE LET checked == PythonExecutable_new(Join(dirs[1], name))
             rest == system_candidates(Tail(dirs), name)
         IN  IF checked.ok THEN <<checked.val>> \o rest ELSE rest

\* a search that keeps the last match instead of the first
RECURSIVE system_find_Last(_, _, _)
system_find_Last(pythons, current_python, pyenv_shim_python) ==
    IF pythons = <<>> THEN None
    ELSE LET later == system_find_Last(Tail(pythons), current_python, pyenv_shim_python) IN
         IF later.some THEN later
         ELSE IF /\ ~PythonExecutable_eq(pythons[1], current_python)
                 /\ ~(/\ pyenv_shim_python.some
                      /\ PythonExecutable_eq(pythons[1], pyenv_shim_python.val))
              THEN Some(pythons[1])
              ELSE None

\* Iterator::find with the predicate of Python::system
RECURSIVE system_find(_, _, _)
system_find(pythons, current_python, pyenv_shim_python) ==
    IF pythons = <<>> THEN None
    ELSE IF /\ ~PythonExecutable_eq(pythons[1], current_python)
            /\ ~(/\ pyenv_shim_python.some
                 /\ PythonExecutable_eq(pythons[1], pyenv_shim_python.val))
         THEN Some(pythons[1])
         ELSE system_find(Tail(pythons), current_python, pyenv_shim_python)

\* Python::system
Python_system(pyenv_root) ==
    LET current_python == PythonExecutable_current
        shim == IF pyenv_root.some
                THEN PythonExecutable_new(PyenvRoot_python_shim_path(pyenv_root.val))
                ELSE Err("None")
        pyenv_shim_python == IF shim.ok THEN Some(shim.val) ELSE None
    IN  IF ~current_python.ok THEN Err("NoCurrentExe")
        ELSE IF ~env.PATH.some THEN Err("NoPath")
        ELSE LET found == system_find(
                     system_candidates(env.PATH.val,
                                       PythonExecutable_name(current_python.val)),
                     current_python.val, pyenv_shim_python)
             IN  IF found.some THEN Ok(found.val) ELSE Err("NotInPath")

----------------------------------------------------------------------------
(* bin/python.rs *)

\* str::contains
Contains(s, word) ==
    \E i \in 1..(Len(s) - Len(word) + 1) : SubSeq(s, i, i + Len(word) - 1) = word

\* reader.read(&mut shebang) into [0_u8; 2]: the first two bytes, what is
\* missing stays 0
ReadShebang(data) ==
    [i \in 1..2 |-> IF i <= Len(data) THEN data[i] ELSE "0x00"]

\* what is left to read after the two bytes
AfterShebang(data) == IF Len(data) <= 2 THEN <<>> ELSE SubSeq(data, 3, Len(data))

\* Argv0ProgramType::detect
Argv0ProgramType_detect(path) ==
    IF ~Exists(path) THEN Err([path |-> path, message |-> "does not exist"])
    ELSE IF fs[path].kind # "file" THEN Err([path |-> path, message |-> "not a file"])
    ELSE IF ~fs[path].x THEN Err([path |-> path, message |-> "not executable"])
    ELSE IF ~CanOpen(path) THEN Err([path |-> path, message |-> "io::Error"])
    ELSE LET shebang == ReadShebang(fs[path].data)
             is_script == shebang = <<"#", "!">>
             first_line == FirstLineBytes(AfterShebang(fs[path].data))
         IN  IF ~is_script THEN Ok("Binary")
             ELSE IF ~IsUtf8(first_line) THEN Err([path |-> path, message |-> "io::Error"])
             ELSE IF \/ Contains(first_line, <<"p", "y", "t", "h", "o", "n">>)
                     \/ Contains(first_line, <<"p", "i", "p">>)
                  THEN Ok("PythonScript")
                  ELSE Ok("Script")

\* Argv0Program::new: the file named like argv0 beside the interpreter, else
\* the interpreter itself; then its type
Argv0Program_new(interpreter) ==
    LET argv0_name == IF env.args = <<>> THEN None
                      ELSE FileName(PathBuf_from(env.args[1]))
        dir == Parent(interpreter)
        path == IF argv0_name.some /\ dir.some THEN Join(dir.val, argv0_name.val)
                ELSE interpreter
        exe_type == Argv0ProgramType_detect(path)
    IN  IF exe_type.ok
        THEN Ok([python_path |-> interpreter, path |-> path, exe_type |-> exe_type.val])
        ELSE exe_type

\* Argv0Program::argv0
Argv0Program_argv0(self) ==
    IF self.exe_type = "PythonScript" THEN self.python_path ELSE self.path

\* Argv0Program::python_script
Argv0Program_python_script(self) ==
    IF self.exe_type = "PythonScript" THEN Some(self.path) ELSE None

\* Path::as_os_str: the path as the string handed to the command
RECURSIVE PathStr(_)
PathStr(path) == IF path = <<>> THEN "" ELSE "/" \o path[1] \o PathStr(Tail(path))

\* a to_command that forgets to drop argv0
Argv0Program_to_command_KeepsArgv0(self) ==
    LET script == Argv0Program_python_script(self) IN
    [program |-> Argv0Program_argv0(self),
     args |-> (IF script.some THEN <<PathStr(script.val)>> ELSE <<>>) \o env.args]

\* Argv0Program::to_command: argv0(), then the script if there is one, then
\* the arguments after the first
Argv0Program_to_command(self) ==
    LET args == IF env.args = <<>> THEN <<>> ELSE Tail(env.args)
        script == Argv0Program_python_script(self)
    IN  [program |-> Argv0Program_argv0(self),
         args |-> (IF script.some THEN <<PathStr(script.val)>> ELSE <<>>) \o args]

\* HasPython for Python: python().path()
Python_path(self) ==
    IF self.kind = "Pyenv" THEN self.pyenv.python_path.path ELSE self.python.path

\* main: `level` times dir.parent(), an error when there is none
RECURSIVE ParentLevel(_, _, _)
ParentLevel(dir, current_level, level) ==
    IF current_level = level THEN Ok(dir)
    ELSE IF ~Parent(dir).some THEN Err([message |-> "no parent", level |-> current_level])
    ELSE ParentLevel(Parent(dir).val, current_level + 1, level)

----------------------------------------------------------------------------
(* Pyenv::new and Python::new, one action per stage *)

\* let root = PyenvRoot::new()?
Pyenv_new_root ==
    /\ pc = "root"
    /\ root' = PyenvRoot_new
    /\ IF root'.ok
          THEN pc' = "version" /\ UNCHANGED pyenv
          ELSE pc' = "python_new" /\ pyenv' = Err([kind |-> "NoRoot", error |-> root'.err])
    /\ UNCHANGED <<env, fs, version, python_path, system, python, main_vars, cache_vars, action_vars>>

\* let version = match root.version() { Err(()) => return Err(NoVersion { root }), .. }
Pyenv_new_version ==
    /\ pc = "version"
    /\ version' = PyenvRoot_version(root.val)
    /\ IF version'.some
          THEN pc' = "check" /\ UNCHANGED pyenv
          ELSE pc' = "python_new" /\ pyenv' = Err([kind |-> "NoVersion", root |-> root.val])
    /\ UNCHANGED <<env, fs, root, python_path, system, python, main_vars, cache_vars, action_vars>>

\* a last stage that blames the version when the executable is missing
Pyenv_new_check_BlamesVersion ==
    /\ pc = "check"
    /\ python_path' = PythonExecutable_new(PyenvRoot_python_version_path(root.val, version.val))
    /\ pyenv' = IF python_path'.ok
                THEN Ok([root |-> root.val, version |-> version.val,
                         python_path |-> python_path'.val])
                ELSE Err([kind |-> "NoVersion", root |-> root.val])
    /\ pc' = "python_new"
    /\ UNCHANGED <<env, fs, root, version, system, python, main_vars, cache_vars, action_vars>>

\* let python_path = match root.python_version_path(&version).check() { .. }; Ok(Self { .. })
Pyenv_new_check ==
    /\ pc = "check"
    /\ python_path' = PythonExecutable_new(PyenvRoot_python_version_path(root.val, version.val))
    /\ pyenv' = IF python_path'.ok
                THEN Ok([root |-> root.val, version |-> version.val,
                         python_path |-> python_path'.val])
                ELSE Err([kind |-> "NoExecutable", error |-> python_path'.err.error,
                          root |-> root.val, version |-> version.val,
                          python_path |-> python_path'.err.path])
    /\ pc' = "python_new"
    /\ UNCHANGED <<env, fs, root, version, system, python, main_vars, cache_vars, action_vars>>

\* Python::new: match Pyenv::new() { Ok(pyenv) => Ok(Self::Pyenv(pyenv)), Err(..) => .. }
Python_new_match ==
    /\ pc = "python_new"
    /\ IF pyenv.ok
          THEN pc' = "done" /\ python' = Ok([kind |-> "Pyenv", pyenv |-> pyenv.val])
          ELSE pc' = "system" /\ UNCHANGED python
    /\ UNCHANGED <<env, fs, root, version, python_path, pyenv, system, main_vars, cache_vars, action_vars>>

\* a fallback that guesses a default interpreter when the search fails
Python_new_system_GuessDefault ==
    /\ pc = "system"
    /\ system' = Python_system(None)
    /\ python' = IF system'.ok
                 THEN Ok([kind |-> "System", python |-> system'.val])
                 ELSE Ok([kind |-> "System",
                          python |-> [name |-> None, path |-> <<"usr", "bin", "python">>,
                                      handle |-> <<"usr", "bin", "python">>]])
    /\ pc' = "done"
    /\ UNCHANGED <<env, fs, root, version, python_path, pyenv, main_vars, cache_vars, action_vars>>

\* Python::new: Err(pyenv_error) => match Self::system(None) { .. }
Python_new_system ==
    /\ pc = "system"
    /\ system' = Python_system(None)
    /\ python' = IF system'.ok
                 THEN Ok([kind |-> "System", python |-> system'.val])
                 ELSE Err([pyenv |-> pyenv.err, system |-> system'.err])
    /\ pc' = "done"
    /\ UNCHANGED <<env, fs, root, version, python_path, pyenv, main_vars, cache_vars, action_vars>>

\* Python::system called with Some(root), root from PyenvRoot::new
Call_system_with_root ==
    /\ pc = "call_system"
    /\ PyenvRoot_new.ok
    /\ root' = PyenvRoot_new
    /\ system' = Python_system(Some(root'.val))
    /\ pc' = "returned"
    /\ UNCHANGED <<env, fs, version, python_path, pyenv, python, main_vars, cache_vars, action_vars>>

\* Python::system called with None
Call_system_without_root ==
    /\ pc = "call_system"
    /\ system' = Python_system(None)
    /\ pc' = "returned"
    /\ UNCHANGED <<env, fs, root, version, python_path, pyenv, python, main_vars, cache_vars, action_vars>>

NextSystem ==
    \/ Call_system_with_root
    \/ Call_system_without_root

\* main: Python::new().context(..)?, then Argv0Program::new(..)?
Main_argv0_program ==
    /\ pc = "done"
    /\ IF ~python.ok
          THEN /\ out' = Err([message |-> "python not found"])
               /\ pc' = "exit"
               /\ UNCHANGED program
          ELSE /\ program' = Argv0Program_new(Python_path(python.val))
               /\ IF program'.ok
                     THEN pc' = "dispatch" /\ UNCHANGED out
                     ELSE pc' = "exit" /\ out' = Err([message |-> program'.err.message])
    /\ UNCHANGED <<env, fs, resolve_vars, command, cache_vars, action_vars>>

\* main: the match on the first argument, then exec or print
Main_dispatch ==
    /\ pc = "dispatch"
    /\ LET arg == IF Len(env.args) >= 2 THEN env.args[2] ELSE ""
           parent_level == CASE arg = "--path" -> Some(0)
                             [] arg = "--dir" -> Some(1)
                             [] arg = "--prefix" -> Some(2)
                             [] OTHER -> None
       IN  IF arg = "--which"
               THEN /\ out' = Ok([which |-> program.val, using |-> python.val])
                    /\ pc' = "exit"
                    /\ UNCHANGED command
           ELSE IF parent_level.some
               THEN /\ out' = ParentLevel(program.val.path, 0, parent_level.val)
                    /\ pc' = "exit"
                    /\ UNCHANGED command
               ELSE /\ command' = Argv0Program_to_command(program.val)
                    /\ pc' = "exec"
                    /\ UNCHANGED out
    /\ UNCHANGED <<env, fs, resolve_vars, program, cache_vars, action_vars>>

NextPython ==
    \/ Pyenv_new_root
    \/ Pyenv_new_version
    \/ Pyenv_new_check
    \/ Python_new_match
    \/ Python_new_system

----------------------------------------------------------------------------
(* The environments the specifications start from *)

EmptyFs == [p \in {} |-> p]
At(path, node) == IF node.some THEN path :> node.val ELSE EmptyFs

\* a file is its own identity unless it is made an alias of another path
Plain(path, data) == File(TRUE, FALSE, path, data)
Executable(path) == File(TRUE, TRUE, path, <<>>)
AliasOf(target) == File(TRUE, TRUE, target, <<>>)

HomeDir == <<"home">>
RootDir == <<"home", ".pyenv">>
CurrentExe == <<"opt", "pp", "python">>
UsrBin == <<"usr", "bin">>
CwdChain == <<"a", "b", "c", "d">>
Cwds == {SubSeq(CwdChain, 1, d) : d \in 0..MaxDepth}

\* a marker path holds nothing, or a file: empty, one line, two lines (the
\* last without its newline), a first line that is not UTF-8
LocalKinds ==
    {None} \cup {Some([r |-> TRUE, data |-> d]) :
                    d \in { <<>>, <<"8", NL>>, <<"9", NL, "8">>, <<BAD, NL, "8", NL>> }}

\* the global marker may also be a file that cannot be opened, or end in CRLF
GlobalKinds ==
    LocalKinds \cup { Some([r |-> FALSE, data |-> <<"8", NL>>]),
                      Some([r |-> TRUE, data |-> <<"6", CR, NL>>]) }

MarkerAt(path, kind) ==
    IF kind.some THEN path :> File(kind.val.r, FALSE, path, kind.val.data) ELSE EmptyFs

\* the local markers of the directories dirs, of the kinds m[1], m[2], ..
RECURSIVE LocalMarkers(_, _, _)
LocalMarkers(dirs, m, i) ==
    IF i > Len(dirs) THEN EmptyFs
    ELSE MarkerAt(Join(dirs[i], ".python-version"), m[i]) @@ LocalMarkers(dirs, m, i + 1)

ShellValues == {None, Some(<<>>), Some(<<"7">>), Some(<<BAD>>)}

VersionPython(v) == Push(PushAll(RootDir, <<"versions", v, "bin">>), "python")

\* the part of every environment that the version chain does not read
BaseEnv == [PYENV_ROOT |-> None, HOME |-> Some(HomeDir), PYENV_VERSION |-> None,
            PATH |-> Some(<<UsrBin>>), cwd |-> Some(<<>>),
            args |-> <<"python">>, current_exe |-> Some(CurrentExe),
            unix |-> TRUE]

BaseFs == (RootDir :> Dir(RootDir))
       @@ (CurrentExe :> Executable(CurrentExe))
       @@ (Join(UsrBin, "python") :> Executable(Join(UsrBin, "python")))

\* Cache::default
Cache_default == [help |-> EmptyFs, versions |-> EmptyFs]

LocalsInit ==
    /\ root = NotRun /\ version = NotRun /\ python_path = NotRun
    /\ pyenv = NotRun /\ system = NotRun /\ python = NotRun
    /\ program = NotRun /\ command = NotRun /\ out = NotRun
    /\ cache = Cache_default /\ log = <<>>
    /\ action = NotRun

\* every shell override, working directory, and local and global marker;
\* the interpreters of versions 7 and 8 are installed, the others are not
InitVersion ==
    /\ pc = "root"
    /\ LocalsInit
    /\ \E shell \in ShellValues, cwd \in {None} \cup {Some(c) : c \in Cwds} :
         /\ env = [BaseEnv EXCEPT !.PYENV_VERSION = shell, !.cwd = cwd]
         /\ \E global \in GlobalKinds :
              LET dirs == IF cwd.some
                          THEN [i \in 1..(Len(cwd.val) + 1) |-> SubSeq(cwd.val, 1, i - 1)]
                          ELSE <<>> IN
              \E m \in [1..Len(dirs) -> LocalKinds] :
                  fs = LocalMarkers(dirs, m, 1)
                       @@ MarkerAt(Join(RootDir, "version"), global)
                       @@ (VersionPython("7") :> Executable(VersionPython("7")))
                       @@ (VersionPython("8") :> Executable(VersionPython("8")))
                       @@ BaseFs

SpecVersion == InitVersion /\ [][NextPython]_vars

OptRoot == <<"opt", "pyenv">>
VersionPythonAt(r, v) == Push(PushAll(r, <<"versions", v, "bin">>), "python")

\* what a candidate path may hold: nothing, a directory, or a regular file
\* with each combination of read and execute permission
FileKind(r, x) == [kind |-> "file", r |-> r, x |-> x]
DirKind == [kind |-> "dir", r |-> TRUE, x |-> TRUE]
CandidateKinds ==
    {None, Some(DirKind)} \cup {Some(FileKind(r, x)) : r \in BOOLEAN, x \in BOOLEAN}

CandidateAt(path, kind) ==
    IF ~kind.some THEN EmptyFs
    ELSE IF kind.val.kind = "dir" THEN path :> Dir(path)
    ELSE path :> File(kind.val.r, kind.val.x, path, <<>>)

\* every root ($PYENV_ROOT or <home>/.pyenv), shell version and state of the
\* candidate; the same version under the other root and another version under
\* the same root are there to be confused with it
InitLocate ==
    /\ pc = "root"
    /\ LocalsInit
    /\ \E r \in {None, Some(OptRoot)}, v \in {<<>>, <<"7">>, <<"8">>} :
         LET this == IF r.some THEN r.val ELSE RootDir
             other == IF r.some THEN RootDir ELSE OptRoot
         IN
         /\ env = [BaseEnv EXCEPT !.PYENV_ROOT = r, !.PYENV_VERSION = Some(v)]
         /\ \E k \in CandidateKinds, k2 \in CandidateKinds,
               k3 \in {None, Some(FileKind(TRUE, TRUE))} :
              fs = CandidateAt(VersionPythonAt(this, Decode(v)), k)
                   @@ CandidateAt(VersionPythonAt(other, Decode(v)), k2)
                   @@ CandidateAt(VersionPythonAt(this, "9"), k3)
                   @@ (OptRoot :> Dir(OptRoot))
                   @@ BaseFs

SpecLocate == InitLocate /\ [][NextPython]_vars

\* what a root path may hold
RootKinds == {"absent", "file", "dir"}
RootAt(path, kind) ==
    IF kind = "absent" THEN EmptyFs
    ELSE IF kind = "dir" THEN path :> Dir(path)
    ELSE path :> Plain(path, <<>>)
\* what is below a root exists only if the root is a directory
Below(kind, files) == IF kind = "dir" THEN files ELSE EmptyFs

\* the whole of Python::new: every way the root, the version, the interpreter
\* and the system search succeed or fail
Init ==
    /\ pc = "root"
    /\ LocalsInit
    /\ \E r \in {None, Some(OptRoot)}, h \in {None, Some(HomeDir)},
          shell \in {None, Some(<<"7">>)},
          path \in {None, Some(<<>>), Some(<<UsrBin>>)},
          exe \in {None, Some(CurrentExe)} :
         /\ env = [BaseEnv EXCEPT !.PYENV_ROOT = r, !.HOME = h, !.PYENV_VERSION = shell,
                                  !.PATH = path, !.current_exe = exe]
         /\ \E k1 \in RootKinds, k2 \in RootKinds,
               global \in {None, Some([r |-> TRUE, data |-> <<"8", NL>>])},
               e7 \in {None, Some(FileKind(TRUE, TRUE))},
               e8 \in {None, Some(FileKind(TRUE, FALSE)), Some(FileKind(TRUE, TRUE))},
               sys \in {"absent", "own", "alias"} :
              fs = RootAt(RootDir, k1) @@ RootAt(OptRoot, k2)
                   @@ Below(k1, MarkerAt(Join(RootDir, "version"), global)
                                @@ CandidateAt(VersionPythonAt(RootDir, "7"), e7)
                                @@ CandidateAt(VersionPythonAt(RootDir, "8"), e8))
                   @@ Below(k2, MarkerAt(Join(OptRoot, "version"), global)
                                @@ CandidateAt(VersionPythonAt(OptRoot, "7"), e7)
                                @@ CandidateAt(VersionPythonAt(OptRoot, "8"), e8))
                   @@ (IF sys = "absent" THEN EmptyFs
                       ELSE IF sys = "own" THEN Join(UsrBin, "python") :> Executable(Join(UsrBin, "python"))
                       ELSE Join(UsrBin, "python") :> AliasOf(CurrentExe))
                   @@ (CurrentExe :> Executable(CurrentExe))

Spec == Init /\ [][NextPython]_vars

UsrLocalBin == <<"usr", "local", "bin">>
ShimsDir == Join(RootDir, "shims")
Shim == Join(ShimsDir, "python")

\* what <dir>/python may hold: nothing, a file without executable permission,
\* an executable of its own, or an executable that is the same file as (a link
\* to) the running executable or the pyenv shim
PythonKinds == {"absent", "plain", "own", "self", "shim"}
PythonAt(path, kind) ==
    CASE kind = "absent" -> EmptyFs
      [] kind = "plain" -> path :> Plain(path, <<>>)
      [] kind = "own" -> path :> Executable(path)
      [] kind = "self" -> path :> AliasOf(CurrentExe)
      [] kind = "shim" -> path :> AliasOf(Shim)

PathLists == UNION {[1..n -> {ShimsDir, UsrLocalBin, UsrBin}] : n \in 0..MaxPath}

\* every $PATH, argv0 and content of the $PATH directories
InitSystem ==
    /\ pc = "call_system"
    /\ LocalsInit
    /\ \E path \in {None} \cup {Some(l) : l \in PathLists},
          args \in {<<>>, <<"python">>, <<"/opt/pp/pip">>, <<"/">>} :
         /\ env = [BaseEnv EXCEPT !.PATH = path, !.args = args]
         /\ \E shim \in {"absent", "own"}, p1 \in PythonKinds, p2 \in PythonKinds,
               q1 \in {"absent", "own"}, q2 \in {"absent", "own"} :
              fs = PythonAt(Shim, shim)
                   @@ PythonAt(Join(UsrLocalBin, "python"), p1)
                   @@ PythonAt(Join(UsrBin, "python"), p2)
                   @@ PythonAt(Join(UsrLocalBin, "pip"), q1)
                   @@ PythonAt(Join(UsrBin, "pip"), q2)
                   @@ (RootDir :> Dir(RootDir))
                   @@ (CurrentExe :> Executable(CurrentExe))

SpecSystem == InitSystem /\ [][NextSystem]_vars

\* Python::new with the pyenv shim on $PATH: the version is unset, installed
\* (7) or not installed (9); every $PATH over the shims directory and two
\* system directories; the shim present or not; each system python absent,
\* not executable, its own file, or a link to the running executable or to
\* the shim
InitFallback ==
    /\ pc = "root"
    /\ LocalsInit
    /\ \E shell \in {None, Some(<<"7">>), Some(<<"9">>)}, path \in PathLists :
         /\ env = [BaseEnv EXCEPT !.PYENV_VERSION = shell, !.PATH = Some(path)]
         /\ \E shim \in {"absent", "own"}, p1 \in PythonKinds, p2 \in PythonKinds :
              fs = PythonAt(Shim, shim)
                   @@ PythonAt(Join(UsrLocalBin, "python"), p1)
                   @@ PythonAt(Join(UsrBin, "python"), p2)
                   @@ (VersionPythonAt(RootDir, "7") :> Executable(VersionPythonAt(RootDir, "7")))
                   @@ (RootDir :> Dir(RootDir))
                   @@ (CurrentExe :> Executable(CurrentExe))

SpecFallback == InitFallback /\ [][NextPython]_vars

\* ExitStatus: code() is the exit code, or None for a child that was ended by
\* a signal
Exited(code) == [code |-> Some(code)]
Signaled == [code |-> None]

\* Option<i32>::unwrap_or_default
unwrap_or_default(opt) == IF opt.some THEN opt.val ELSE 0

\* the exit codes a child can end with
ExitCodes == {0, 1, 2}

\* CommandExt2::exec under cfg(unix): the process is replaced, or the error
\* of exec comes back and main returns it
CommandExt2_exec_unix ==
    /\ pc = "exec"
    /\ env.unix
    /\ \/ pc' = "replaced" /\ UNCHANGED out
       \/ pc' = "exit" /\ out' = Err([message |-> "failed to run python subprocess"])
    /\ UNCHANGED <<env, fs, resolve_vars, program, command, cache_vars, action_vars>>

\* CommandExt2::exec under cfg(not(unix)): wait for the child and exit with
\* its code, or return the error of the spawn; off unix every child that
\* ended has a code
CommandExt2_exec_not_unix ==
    /\ pc = "exec"
    /\ ~env.unix
    /\ \/ \E code \in ExitCodes :
            /\ out' = Ok([exit |-> unwrap_or_default(Exited(code).code)])
            /\ pc' = "exit"
       \/ pc' = "exit" /\ out' = Err([message |-> "failed to run python subprocess"])
    /\ UNCHANGED <<env, fs, resolve_vars, program, command, cache_vars, action_vars>>

NextMain ==
    \/ CommandExt2_exec_unix
    \/ CommandExt2_exec_not_unix
    \/ Pyenv_new_root
    \/ Pyenv_new_version
    \/ Pyenv_new_check
    \/ Python_new_match
    \/ Python_new_system
    \/ Main_argv0_program
    \/ Main_dispatch

\* file contents for detect: empty, one byte, the shebang alone, scripts whose
\* first line names sh, pip (no newline) or python, python on the second line
\* only, the two bytes swapped, a binary, no shebang, a shebang line that is
\* not UTF-8, and bytes that are not UTF-8 after the first line
DetectContents ==
    { <<>>,
      <<"#">>,
      <<"#", "!">>,
      <<"#", "!", "/", "s", "h", NL>>,
      <<"#", "!", "p", "i", "p">>,
      <<"#", "!", "/", "p", "y", "t", "h", "o", "n", NL>>,
      <<"#", "!", "/", "s", "h", NL, "p", "y", "t", "h", "o", "n">>,
      <<"!", "#", "p", "y", "t", "h", "o", "n", NL>>,
      <<BAD, "E", "L", "F">>,
      <<"p", "y", "t", "h", "o", "n">>,
      <<"#", "!", BAD, NL>>,
      <<"#", "!", "/", "s", "h", NL, BAD>> }

\* what the file beside the interpreter may be
DetectKinds ==
    {None, Some([kind |-> "dir", r |-> TRUE, x |-> TRUE, data |-> <<>>]),
     Some([kind |-> "file", r |-> TRUE, x |-> FALSE, data |-> <<"#", "!">>]),
     Some([kind |-> "file", r |-> FALSE, x |-> TRUE, data |-> <<"#", "!">>])}
    \cup {Some([kind |-> "file", r |-> TRUE, x |-> TRUE, data |-> d]) : d \in DetectContents}

DetectAt(path, kind) ==
    IF ~kind.some THEN EmptyFs
    ELSE IF kind.val.kind = "dir" THEN path :> Dir(path)
    ELSE path :> File(kind.val.r, kind.val.x, path, kind.val.data)

Elf == <<BAD, "E", "L", "F">>

\* every argv, with version 7 installed and version 9 not; beside the
\* interpreter of version 7 a pip of every kind; the interpreter itself a
\* binary or a script; in the one directory of PATH, /usr/bin or the root
\* directory, a python and a pip
InitMain ==
    /\ pc = "root"
    /\ LocalsInit
    /\ \E shell \in {Some(<<"7">>), Some(<<"9">>)},
          argv0 \in {"python", "pip", "/"},
          rest \in {<<>>, <<"install", "x">>, <<"--path">>, <<"--dir">>,
                    <<"--prefix">>, <<"--which">>},
          empty \in BOOLEAN, unix \in BOOLEAN, sysdir \in {UsrBin, <<>>} :
         /\ env = [BaseEnv EXCEPT !.PYENV_VERSION = shell, !.unix = unix,
                                  !.PATH = Some(<<sysdir>>),
                                  !.args = IF empty THEN <<>> ELSE <<argv0>> \o rest]
         /\ \E pip \in DetectKinds,
               py \in {Elf, <<"#", "!", "/", "s", "h", NL>>,
                       <<"#", "!", "/", "p", "y", "t", "h", "o", "n", NL>>} :
              fs = (VersionPythonAt(RootDir, "7")
                        :> File(TRUE, TRUE, VersionPythonAt(RootDir, "7"), py))
                   @@ DetectAt(Join(Parent(VersionPythonAt(RootDir, "7")).val, "pip"), pip)
                   @@ (Join(sysdir, "python") :> File(TRUE, TRUE, Join(sysdir, "python"), Elf))
                   @@ (Join(sysdir, "pip")
                        :> File(TRUE, TRUE, Join(sysdir, "pip"),
                                <<"#", "!", "/", "p", "y", "t", "h", "o", "n", NL>>))
                   @@ (RootDir :> Dir(RootDir))
                   @@ (CurrentExe :> Executable(CurrentExe))

SpecMain == InitMain /\ [][NextMain]_vars

----------------------------------------------------------------------------
(* pyenv/cache.rs *)

\* CacheType::invalidates
CacheType_invalidates(self) ==
    IF self = "Help" THEN {"Help", "Versions"} ELSE {"Versions"}

\* Cache::cache_for: the field of the cache a type names
Cache_cache_for(cache_type) == IF cache_type = "Help" THEN "help" ELSE "versions"

\* an invalidate that clears every domain, whatever the type
Cache_invalidate_Everything(self, cache_type) ==
    [self EXCEPT !.help = EmptyFs, !.versions = EmptyFs]

\* Cache::invalidate: clear every domain of the invalidation set
Cache_invalidate(self, cache_type) ==
    [self EXCEPT !.help = IF "Help" \in CacheType_invalidates(cache_type)
                          THEN EmptyFs ELSE @,
                 !.versions = IF "Versions" \in CacheType_invalidates(cache_type)
                              THEN EmptyFs ELSE @]

\* what the real pyenv may answer: the installed versions, a failure, or
\* nothing because a signal ended it
Outputs ==
    { [status |-> Exited(0), stdout |-> "7", stderr |-> ""],
      [status |-> Exited(1), stdout |-> "", stderr |-> "pyenv: error"],
      [status |-> Signaled, stdout |-> "", stderr |-> ""] }

CacheBehaviors ==
    { [kind |-> "Cache", type |-> "Help"], [kind |-> "Cache", type |-> "Versions"],
      [kind |-> "Ignore", type |-> ""],
      [kind |-> "Invalidate", type |-> "Help"],
      [kind |-> "Invalidate", type |-> "Versions"] }

CacheArgs == { <<"pyenv", "versions">>, <<"pyenv", "versions", "--version">> }

\* CacheBehavior::run, one run of the process with its own argv: the cache
\* starts as Cache::default(), run_as_pyenv spawns the real pyenv (taken to
\* be installed) and captures its output, the output is printed and the
\* process exits with its status
CacheBehavior_run(self) ==
    /\ pc = "run"
    /\ Len(log) < MaxCalls
    /\ \E args \in CacheArgs, fresh \in Outputs :
         LET start == Cache_default
             field == Cache_cache_for(self.type)
             hit == self.kind = "Cache" /\ args \in DOMAIN start[field]
             output == IF hit THEN start[field][args] ELSE fresh
             after == CASE self.kind = "Cache" /\ hit -> start
                        [] self.kind = "Cache" /\ ~hit ->
                             [start EXCEPT ![field] = (args :> fresh) @@ @]
                        [] self.kind = "Ignore" -> start
                        [] self.kind = "Invalidate" -> Cache_invalidate(start, self.type)
         IN  /\ env' = [env EXCEPT !.args = args]
             /\ cache' = after
             /\ out' = Ok([stdout |-> output.stdout, stderr |-> output.stderr,
                            exit |-> unwrap_or_default(output.status.code)])
             /\ log' = Append(log, [behavior |-> self, args |-> args,
                                    spawned |-> ~hit, output |-> output])
    /\ UNCHANGED <<fs, pc, resolve_vars, program, command, action_vars>>

NextCache == \E behavior \in CacheBehaviors : CacheBehavior_run(behavior)

InitCache ==
    /\ pc = "run"
    /\ LocalsInit
    /\ env = BaseEnv
    /\ fs = BaseFs

SpecCache == InitCache /\ [][NextCache]_vars

\* every map a cache domain can hold over the argument vectors
CommandCaches ==
    UNION { [keys -> Outputs] : keys \in SUBSET CacheArgs }

\* every value of the Cache struct
Caches == [help : CommandCaches, versions : CommandCaches]

\* cache.invalidate(&cache_type) applied to a cache value, the value before
\* it kept in the log
Cache_invalidate_call(cache_type) ==
    /\ pc = "invalidate"
    /\ cache' = Cache_invalidate(cache, cache_type)
    /\ log' = <<[call |-> "Cache::invalidate", type |-> cache_type, before |-> cache]>>
    /\ pc' = "invalidated"
    /\ UNCHANGED <<env, fs, resolve_vars, main_vars, action_vars>>

NextInvalidate ==
    \/ \E behavior \in CacheBehaviors : CacheBehavior_run(behavior)
    \/ \E cache_type \in {"Help", "Versions"} : Cache_invalidate_call(cache_type)

\* either the wrapper is about to run, or Cache::invalidate is about to be
\* applied to any cache value
InitInvalidate ==
    /\ root = NotRun /\ version = NotRun /\ python_path = NotRun
    /\ pyenv = NotRun /\ system = NotRun /\ python = NotRun
    /\ program = NotRun /\ command = NotRun /\ out = NotRun
    /\ log = <<>> /\ action = NotRun
    /\ env = BaseEnv
    /\ fs = BaseFs
    /\ \/ pc = "run" /\ cache = Cache_default
       \/ pc = "invalidate" /\ cache \in Caches

SpecInvalidate == InitInvalidate /\ [][NextInvalidate]_vars

----------------------------------------------------------------------------
(* pyenv/action.rs *)

Intercept(cmd) == [kind |-> "Intercept", command |-> cmd]
Delegate(behavior) == [kind |-> "Delegate", behavior |-> behavior]

\* Option::contains: the option holds exactly this value
OptionContains(opt, x) == opt.some /\ opt.val = x

\* a try_to_command whose shell, global and local do not look at arg1
try_to_command_AnyArgs(cmd, arg1) ==
    CASE cmd = "shell" -> Ok([name |-> "Shell"])
      [] cmd = "global" -> Ok([name |-> "Global"])
      [] cmd = "local" -> Ok([name |-> "Local"])
      [] OTHER -> Err("Continue")

\* the closure try_to_command: the Command to intercept, or Break, or Continue
try_to_command(cmd, arg1) ==
    CASE cmd = "root" -> Ok([name |-> "Root"])
      [] cmd = "prefix" -> Ok([name |-> "Prefix", version |-> arg1, virtualenv |-> FALSE])
      [] cmd = "virtualenv-prefix" ->
            Ok([name |-> "Prefix", version |-> arg1, virtualenv |-> TRUE])
      [] cmd = "version" -> Ok([name |-> "Version"])
      [] cmd = "version-file" -> Ok([name |-> "VersionFile", dir |-> arg1])
      [] cmd = "version-file-read" ->
            IF arg1.some THEN Ok([name |-> "VersionFileRead", path |-> arg1.val])
            ELSE Err("Break")
      [] cmd = "version-name" -> Ok([name |-> "VersionName"])
      [] cmd = "version-origin" -> Ok([name |-> "VersionOrigin"])
      [] cmd = "exec" -> Ok([name |-> "Exec"])
      [] cmd = "shims" -> Ok([name |-> "Shims", short |-> OptionContains(arg1, "--short")])
      [] cmd = "which" -> Ok([name |-> "Which", command |-> arg1])
      [] OTHER ->
            IF ~arg1.some
            THEN CASE cmd = "shell" -> Ok([name |-> "Shell"])
                   [] cmd = "global" -> Ok([name |-> "Global"])
                   [] cmd = "local" -> Ok([name |-> "Local"])
                   [] OTHER -> Err("Continue")
            ELSE Err("Continue")

\* the closure to_cache_behavior; the guard `if arg1.contains("--version")`
\* belongs to the whole arm versions | virtualenvs | whence | virtualenv
to_cache_behavior(cmd, arg1) ==
    IF cmd \in {"shell", "global", "local", "rehash", "completions", "version-file-read"}
        THEN [kind |-> "Ignore", type |-> ""]
    ELSE IF cmd \in {"--version", "commands", "help", "hooks", "init", "virtualenv-init"}
        THEN [kind |-> "Cache", type |-> "Help"]
    ELSE IF /\ cmd \in {"versions", "virtualenvs", "whence", "virtualenv"}
            /\ OptionContains(arg1, "--version")
        THEN [kind |-> "Cache", type |-> "Versions"]
    ELSE IF cmd \in {"activate", "deactivate", "install", "uninstall"}
        THEN [kind |-> "Invalidate", type |-> "Versions"]
    ELSE IF cmd = "update"
        THEN [kind |-> "Invalidate", type |-> "Help"]
    ELSE [kind |-> "Ignore", type |-> ""]

\* a from_args that does not look for --help
Action_from_args_NoHelpFlag(args) ==
    IF Len(args) < 2 THEN Delegate([kind |-> "Cache", type |-> "Help"])
    ELSE LET cmd == args[2]
             arg1 == IF Len(args) >= 3 THEN Some(args[3]) ELSE None
             tried == try_to_command(cmd, arg1)
         IN  IF tried.ok THEN Intercept(tried.val)
             ELSE IF tried.err = "Break" THEN Delegate([kind |-> "Cache", type |-> "Help"])
             ELSE Delegate(to_cache_behavior(cmd, arg1))

\* Action::from_args
Action_from_args(args) ==
    LET help == Delegate([kind |-> "Cache", type |-> "Help"]) IN
    IF Len(args) < 2 THEN help
    ELSE LET cmd == args[2]
             arg1 == IF Len(args) >= 3 THEN Some(args[3]) ELSE None
             tried == try_to_command(cmd, arg1)
         IN  IF OptionContains(arg1, "--help") THEN help
             ELSE IF tried.ok THEN Intercept(tried.val)
             ELSE IF tried.err = "Break" THEN help
             ELSE Delegate(to_cache_behavior(cmd, arg1))

\* let action = Action::from_args()
Action_from_args_call ==
    /\ pc = "from_args"
    /\ action' = Action_from_args(env.args)
    /\ pc' = "classified"
    /\ UNCHANGED <<env, fs, resolve_vars, main_vars, cache_vars>>

NextAction == Action_from_args_call

\* the subcommand names of every rule, a name of no rule, and the help flag
\* in the place of the name
Subcommands ==
    {"root", "prefix", "virtualenv-prefix", "version", "version-file",
     "version-file-read", "version-name", "version-origin", "exec", "shims", "which",
     "shell", "global", "local", "rehash", "completions",
     "--version", "commands", "help", "hooks", "init", "virtualenv-init",
     "versions", "virtualenvs", "whence", "virtualenv",
     "activate", "deactivate", "install", "uninstall", "update",
     "doctor", "--help"}

\* the arguments after the subcommand name: none, one, or two
SubcommandArgs ==
    {<<>>}
    \cup {<<a>> : a \in {"--help", "--version", "--short", "3.9"}}
    \cup {<<a, b>> : a \in {"--help", "--version", "--short", "3.9"},
                     b \in {"--help", "3.8"}}

\* every argument vector: empty, the program name alone, or a subcommand with
\* its arguments
InitAction ==
    /\ pc = "from_args"
    /\ LocalsInit
    /\ fs = BaseFs
    /\ \E args \in {<<>>, <<"pyenv">>}
                   \cup {<<"pyenv", cmd>> \o rest : cmd \in Subcommands, rest \in SubcommandArgs} :
         env = [BaseEnv EXCEPT !.args = args]

SpecAction == InitAction /\ [][NextAction]_vars

----------------------------------------------------------------------------
(* Version resolution: C1, C2, C3 *)

\* the directories of the working directory's chain, by number of components
CwdPrefix(k) == SubSeq(env.cwd.val, 1, k)
LocalRead(k) == read_python_version_file(Join(CwdPrefix(k), ".python-version"))
\* the nearest directory with a readable marker is the one of k components
Nearest(k) ==
    /\ LocalRead(k).ok
    /\ \A j \in (k + 1)..Len(env.cwd.val) : ~LocalRead(j).ok
NoLocal ==
    \/ ~env.cwd.some
    \/ \A k \in 0..Len(env.cwd.val) : ~LocalRead(k).ok
GlobalRead == read_python_version_file(Join(root.val.root, "version"))

\* C1: whenever PYENV_VERSION is set, whatever the local and global markers
\* are, the resolved version is that value, with origin Shell.
C1_ShellOverrideWins ==
    (HasRun(version) /\ env.PYENV_VERSION.some) =>
        /\ version.some
        /\ version.val.from = "Shell"
        /\ version.val.version = Decode(env.PYENV_VERSION.val)

\* C2: with PYENV_VERSION unset, the version is the first line of the marker
\* of the nearest directory among the working directory and all its ancestors
\* (the filesystem root included) that has a readable marker, with origin
\* Local, whatever farther ancestors and the global marker hold.
C2_NearestLocalMarkerWins ==
    (HasRun(version) /\ ~env.PYENV_VERSION.some /\ env.cwd.some) =>
        \A k \in 0..Len(env.cwd.val) :
            Nearest(k) => version = Some(PyenvVersion(LocalRead(k).val, "Local"))

\* the spec's example: two directories without a marker are skipped, the
\* marker is found in the third, and a global marker is present but loses
C2_Witness ==
    /\ HasRun(version) /\ ~env.PYENV_VERSION.some /\ env.cwd.some
    /\ Len(env.cwd.val) = 3
    /\ ~Exists(Join(CwdPrefix(3), ".python-version"))
    /\ ~Exists(Join(CwdPrefix(2), ".python-version"))
    /\ Nearest(1)
    /\ LocalRead(0).ok /\ LocalRead(0).val # LocalRead(1).val
    /\ GlobalRead.ok /\ GlobalRead.val # LocalRead(1).val
    /\ version = Some(PyenvVersion("9", "Local"))

\* C3: with PYENV_VERSION unset and no readable local marker, the version is
\* the first line of <root>/version with origin Global; if that cannot be read
\* either there is no version and Pyenv::new returns NoVersion.  Origin Global
\* is returned only when the shell and the local step both failed.
C3_GlobalLastThenNoVersion ==
    HasRun(version) =>
        /\ (~env.PYENV_VERSION.some /\ NoLocal /\ GlobalRead.ok) =>
               version = Some(PyenvVersion(GlobalRead.val, "Global"))
        /\ (~env.PYENV_VERSION.some /\ NoLocal /\ ~GlobalRead.ok) =>
               /\ version = None
               /\ ~pyenv.ok /\ pyenv.err.kind = "NoVersion"
               /\ python_path = NotRun
               /\ (HasRun(python) /\ python.ok) => python.val.kind = "System"
        /\ (version.some /\ version.val.from = "Global") =>
               /\ ~(env.PYENV_VERSION.some /\ IsUtf8(env.PYENV_VERSION.val))
               /\ NoLocal

\* both cases of C3 happen: the global marker is used, and nothing is found
C3_Witness ==
    /\ HasRun(version) /\ ~env.PYENV_VERSION.some /\ NoLocal
    /\ env.cwd.some /\ Len(env.cwd.val) = 2
    /\ \/ version = Some(PyenvVersion("8", "Global"))
       \/ (version = None /\ pc = "done" /\ Exists(Join(root.val.root, "version")))

----------------------------------------------------------------------------
(* Executable location: C4 *)

\* <root>/versions/<version>/bin/python, for the root and version resolved
Candidate ==
    root.val.root \o <<"versions">>
        \o (IF version.val.version = "" THEN <<>> ELSE <<version.val.version>>)
        \o <<"bin", "python">>
CandidateIsExecutableFile ==
    Exists(Candidate) /\ fs[Candidate].kind = "file" /\ fs[Candidate].x

\* C4 as stated: locate returns the candidate if and only if it exists, is a
\* regular file and has executable permission, and fails with NotExecutable in
\* every other case.
C4_LocateElseNotExecutable ==
    HasRun(python_path) =>
        /\ python_path.ok <=> CandidateIsExecutableFile
        /\ python_path.ok => python_path.val.path = Candidate
        /\ ~python_path.ok => python_path.err.error = "NotExecutable"

\* C4 amended: locate returns the candidate if and only if it can be opened, is
\* a regular file and has executable permission; it fails with NotFound when
\* the candidate is missing or cannot be opened, and with NotExecutable when
\* it was opened but is not a regular file or has no executable permission.
C4_Locate ==
    HasRun(python_path) =>
        /\ python_path.ok <=> (CandidateIsExecutableFile /\ fs[Candidate].r)
        /\ python_path.ok =>
               /\ python_path.val.path = Candidate
               /\ python_path.val.handle = fs[Candidate].ino
               /\ pyenv.ok /\ pyenv.val.python_path.path = Candidate
        /\ ~python_path.ok =>
               /\ python_path.err.path = Candidate
               /\ python_path.err.error =
                      IF Exists(Candidate) /\ fs[Candidate].r THEN "NotExecutable"
                      ELSE "NotFound"
               /\ ~pyenv.ok /\ pyenv.err.kind = "NoExecutable"

\* a directory at the candidate path is refused as NotExecutable, while the
\* same version under the other root is installed and executable
C4_Witness ==
    /\ HasRun(python_path)
    /\ Exists(Candidate) /\ fs[Candidate].kind = "dir"
    /\ python_path = Err([error |-> "NotExecutable", path |-> Candidate])
    /\ env.PYENV_ROOT.some
    /\ IsExecutable(VersionPythonAt(RootDir, version.val.version))

----------------------------------------------------------------------------
(* Top-level resolution: C5 *)

\* C5: Python::new returns Pyenv exactly when Pyenv::new succeeded, and then
\* the system search has not run; when Pyenv::new failed the system search has
\* run and its interpreter is returned as System; when that failed too the
\* error carries both failures.  No other interpreter is ever returned.
C5_PyenvElseSystemElseBoth ==
    /\ (HasRun(pyenv) /\ pyenv.ok) => system = NotRun
    /\ HasRun(python) =>
          /\ HasRun(pyenv)
          /\ pyenv.ok =>
                /\ root.ok /\ version.some /\ python_path.ok
                /\ python = Ok([kind |-> "Pyenv", pyenv |-> pyenv.val])
                /\ pyenv.val.python_path = python_path.val
          /\ ~pyenv.ok =>
                /\ HasRun(system)
                /\ system.ok => python = Ok([kind |-> "System", python |-> system.val])
                /\ ~system.ok =>
                      python = Err([pyenv |-> pyenv.err, system |-> system.err])
    /\ (pc = "done") => HasRun(python)
    /\ (HasRun(python_path) /\ python_path.ok) => (HasRun(pyenv) /\ pyenv.ok)

\* both resolutions failed, each for its own reason: the version is installed
\* without executable permission, and $PATH holds only the running executable
C5_Witness ==
    /\ pc = "done"
    /\ ~python.ok
    /\ python.err.pyenv.kind = "NoExecutable"
    /\ python.err.system = "NotInPath"
    /\ env.PATH.some /\ env.PATH.val # <<>>

----------------------------------------------------------------------------
(* System fallback search: C6, C7 *)

\* C6: the system search never returns a file that is the running executable,
\* under whatever path it is found.
C6_NeverTheRunningExecutable ==
    (HasRun(system) /\ system.ok) =>
        /\ Exists(system.val.path)
        /\ fs[system.val.path].ino # fs[env.current_exe.val].ino

\* the first directory of $PATH holds a link to the running executable under
\* another path; it is skipped and the next directory's python is returned
C6_Witness ==
    /\ HasRun(system) /\ system.ok
    /\ env.args = <<"python">>
    /\ Len(env.PATH.val) = 2
    /\ Join(env.PATH.val[1], "python") # env.current_exe.val
    /\ IsExecutable(Join(env.PATH.val[1], "python"))
    /\ fs[Join(env.PATH.val[1], "python")].ino = fs[env.current_exe.val].ino
    /\ system.val.path = Join(env.PATH.val[2], "python")

\* the file name the search looks for: argv0's, else the running executable's
SearchedName ==
    CASE env.args = <<>> -> "python"
      [] env.args # <<>> /\ env.args[1] = "/" -> "python"
      [] env.args # <<>> /\ env.args[1] = "/opt/pp/pip" -> "pip"
      [] env.args # <<>> /\ env.args[1] = "python" -> "python"

ShimSupplied == HasRun(root)
ShimValid == Exists(Shim) /\ fs[Shim].r /\ fs[Shim].kind = "file" /\ fs[Shim].x

\* <dir>/<name> of the i-th directory is a valid executable that is neither
\* the running executable nor the supplied shim
Eligible(i, name) ==
    LET c == Join(env.PATH.val[i], name) IN
    /\ Exists(c) /\ fs[c].r /\ fs[c].kind = "file" /\ fs[c].x
    /\ fs[c].ino # fs[env.current_exe.val].ino
    /\ (ShimSupplied /\ ShimValid) => fs[c].ino # fs[Shim].ino

FirstEligibleWins(name) ==
    (HasRun(system) /\ env.PATH.some) =>
        LET good == {i \in 1..Len(env.PATH.val) : Eligible(i, name)} IN
        IF good = {} THEN system = Err("NotInPath")
        ELSE /\ system.ok
             /\ \E i \in good :
                  /\ \A j \in good : i <= j
                  /\ system.val.path = Join(env.PATH.val[i], name)

----------------------------------------------------------------------------
(* Program detection and command shaping: C8, C9 *)

\* the path detect was run on, whether it succeeded or failed
Target == IF program.ok THEN program.val.path ELSE program.err.path

\* the first line of the target, the shebang included
TargetFirstLine == FirstLineBytes(fs[Target].data)

TargetHasShebang ==
    Len(fs[Target].data) >= 2 /\ SubSeq(fs[Target].data, 1, 2) = <<"#", "!">>

TargetIsExecutableFile ==
    Exists(Target) /\ fs[Target].kind = "file" /\ fs[Target].x

\* the type the claim gives an existing, regular, executable target
ClaimedType ==
    IF ~TargetHasShebang THEN "Binary"
    ELSE IF \/ Contains(TargetFirstLine, <<"p", "y", "t", "h", "o", "n">>)
            \/ Contains(TargetFirstLine, <<"p", "i", "p">>)
         THEN "PythonScript"
         ELSE "Script"

\* C8: for a target that exists, is a regular file and is
\* executable, detect returns PythonScript when the file starts with #! and
\* its first line contains python or pip, Script when it starts with #!
\* without either word, Binary otherwise
C8_DetectType ==
    (HasRun(program) /\ TargetIsExecutableFile)
        => (program.ok /\ program.val.exe_type = ClaimedType)

\* the arguments of the caller after argv0
CallerArgs == IF env.args = <<>> THEN <<>> ELSE Tail(env.args)

\* C9: for Binary and Script the command's program is the detected path and
\* its arguments are the caller's arguments after argv0; for PythonScript the
\* program is the resolved interpreter, the first argument is the script
\* path, and the caller's arguments after argv0 follow
C9_CommandShape ==
    HasRun(command) =>
        /\ program.val.python_path = Python_path(python.val)
        /\ IF program.val.exe_type = "PythonScript"
           THEN /\ command.program = Python_path(python.val)
                /\ command.args = <<PathStr(program.val.path)>> \o CallerArgs
           ELSE /\ command.program = program.val.path
                /\ command.args = CallerArgs

\* pip install x with version 7 selected and a python script pip beside its
\* interpreter: the interpreter runs with the script path, install and x
C9_Witness ==
    /\ HasRun(command)
    /\ env.args = <<"pip", "install", "x">>
    /\ program.val.exe_type = "PythonScript"
    /\ command.program = <<"home", ".pyenv", "versions", "7", "bin", "python">>
    /\ command.args = <<"/home/.pyenv/versions/7/bin/pip", "install", "x">>

----------------------------------------------------------------------------
(* Delegation cache: C10 *)

\* an Invalidate that empties the Versions domain ran strictly between the
\* i-th and the j-th run
InvalidatedBetween(i, j) ==
    \E k \in (i + 1)..(j - 1) :
        /\ log[k].behavior.kind = "Invalidate"
        /\ "Versions" \in CacheType_invalidates(log[k].behavior.type)

\* C10: of two Cache(Versions) runs with the same argument vector and no
\* invalidation between them, the later one does not spawn the real pyenv
\* and returns the status, stdout and stderr of the earlier one
C10_CacheIdempotence ==
    \A i, j \in 1..Len(log) :
        ( /\ i < j
          /\ log[i].behavior = [kind |-> "Cache", type |-> "Versions"]
          /\ log[j].behavior = [kind |-> "Cache", type |-> "Versions"]
          /\ log[i].args = log[j].args
          /\ ~InvalidatedBetween(i, j) )
        => (~log[j].spawned /\ log[j].output = log[i].output)

----------------------------------------------------------------------------
(* Invalidation: C11 *)

\* the field of a cache a type names
DomainOf(c, cache_type) == IF cache_type = "Help" THEN c.help ELSE c.versions

\* Cache::invalidate left every domain of the invalidation set of t empty
\* and every other domain as it was
InvalidatedExactly(before, after, t) ==
    /\ (t = "Help") => (after.help = EmptyFs /\ after.versions = EmptyFs)
    /\ (t = "Versions") => (after.versions = EmptyFs /\ after.help = before.help)

\* the last run of the wrapper
LastRun == log[Len(log)]

\* C11: Invalidate(Help) empties the Help and the Versions domain,
\* Invalidate(Versions) empties the Versions domain and leaves the Help domain
\* as it was; a run with Invalidate(t) spawns the real pyenv and stores
\* nothing, and a Cache(Versions) run with the same arguments after an
\* Invalidate(Versions) run spawns again
C11_InvalidateClearsAndSpawns ==
    /\ (pc = "invalidated") => InvalidatedExactly(log[1].before, cache, log[1].type)
    /\ (pc = "run" /\ log # <<>> /\ LastRun.behavior.kind = "Invalidate")
            => /\ LastRun.spawned
               /\ \A t \in CacheType_invalidates(LastRun.behavior.type) :
                     DomainOf(cache, t) = EmptyFs
               /\ LastRun.args \notin DOMAIN cache.help
               /\ LastRun.args \notin DOMAIN cache.versions
    /\ (pc = "run") =>
            \A i, j \in 1..Len(log) :
                ( /\ i < j
                  /\ log[i].behavior = [kind |-> "Invalidate", type |-> "Versions"]
                  /\ log[j].behavior = [kind |-> "Cache", type |-> "Versions"]
                  /\ log[i].args = log[j].args )
                => log[j].spawned

\* Cache::invalidate(Versions) applied to a cache that holds `pyenv versions`
\* in both domains: the Versions domain is empty, the Help domain still holds
\* its entry
C11_Witness ==
    /\ pc = "invalidated"
    /\ log[1].type = "Versions"
    /\ <<"pyenv", "versions">> \in DOMAIN log[1].before.help
    /\ <<"pyenv", "versions">> \in DOMAIN log[1].before.versions
    /\ cache.versions = EmptyFs
    /\ <<"pyenv", "versions">> \in DOMAIN cache.help

----------------------------------------------------------------------------
(* Subcommand classification: C12, C13, C14 *)

Classified == HasRun(action)

\* the subcommand name and the arguments that follow it
Name == env.args[2]
Following == SubSeq(env.args, 3, Len(env.args))

IsCacheHelp ==
    action.kind = "Delegate" /\ action.behavior = [kind |-> "Cache", type |-> "Help"]
IsCacheVersions ==
    action.kind = "Delegate" /\ action.behavior = [kind |-> "Cache", type |-> "Versions"]
IsIgnore ==
    action.kind = "Delegate" /\ action.behavior.kind = "Ignore"

\* --help among the arguments that follow the subcommand name
CarriesHelpFlag ==
    Len(env.args) >= 3 /\ \E i \in 1..Len(Following) : Following[i] = "--help"

\* C12 as stated: fewer than two tokens, or a --help anywhere after the
\* subcommand name, gives Delegate(Cache(Help)) whatever the subcommand is
C12_HelpAnywhere ==
    (Classified /\ (Len(env.args) < 2 \/ CarriesHelpFlag)) => IsCacheHelp

\* C12 amended: fewer than two tokens, or --help as the first argument after
\* the subcommand name, gives Delegate(Cache(Help)) whatever the subcommand is
C12_HelpFirstArgument ==
    (Classified /\ (Len(env.args) < 2 \/ (Len(env.args) >= 3 /\ env.args[3] = "--help")))
        => IsCacheHelp

\* pyenv root --help: without the flag the rule for root intercepts, with it
\* the action is Delegate(Cache(Help))
C12_Witness ==
    /\ Classified
    /\ env.args = <<"pyenv", "root", "--help">>
    /\ IsCacheHelp

\* C13: versions, virtualenvs and whence are Delegate(Cache(Versions))
\* whatever follows them (the help flag as first argument aside), and
\* virtualenv is Delegate(Cache(Versions)) exactly when its next argument is
\* --version
C13_VersionsCached ==
    (Classified /\ Len(env.args) >= 2 /\ ~(Len(env.args) >= 3 /\ env.args[3] = "--help")) =>
        /\ Name \in {"versions", "virtualenvs", "whence"} => IsCacheVersions
        /\ Name = "virtualenv" =>
                (IsCacheVersions <=> (Len(env.args) >= 3 /\ env.args[3] = "--version"))

\* C14: shell, global and local with no argument are intercepted as Shell,
\* Global and Local; with a first argument that is not the help flag they are
\* Delegate(Ignore)
C14_ShellGlobalLocal ==
    (Classified /\ Len(env.args) >= 2 /\ Name \in {"shell", "global", "local"}) =>
        /\ Len(env.args) = 2 =>
                /\ action.kind = "Intercept"
                /\ action.command.name = (CASE Name = "shell" -> "Shell"
                                            [] Name = "global" -> "Global"
                                            [] Name = "local" -> "Local")
        /\ (Len(env.args) >= 3 /\ env.args[3] # "--help") => IsIgnore

\* pyenv global 3.9 is delegated with Ignore
C14_Witness ==
    /\ Classified
    /\ env.args = <<"pyenv", "global", "3.9">>
    /\ IsIgnore

----------------------------------------------------------------------------
(* Exit codes: C15 *)

\* C15: after a run that spawned the real pyenv and waited for it, the
\* wrapper exits with the exit code of the child when the child has one, and
\* with a code other than 0 when a signal ended the child
C15_ExitCodeOfChild ==
    (pc = "run" /\ log # <<>> /\ LastRun.spawned) =>
        IF LastRun.output.status.code.some
        THEN out.val.exit = LastRun.output.status.code.val
        ELSE out.val.exit # 0

----------------------------------------------------------------------------
(* Path queries: C16 *)

\* the resolved interpreter path
ResolvedPath == Python_path(python.val)

\* the first argument of the caller
Mode == IF Len(env.args) >= 2 THEN env.args[2] ELSE ""

Level == CASE Mode = "--path" -> 0 [] Mode = "--dir" -> 1 [] Mode = "--prefix" -> 2

\* the n-th parent of a path of at least n components
NthParent(path, n) == SubSeq(path, 1, Len(path) - n)

\* C16: in the modes --path, --dir and --prefix the run prints the resolved
\* interpreter path, its first-level parent and its second-level parent; when
\* the path has fewer parents than the level the run ends with an error; the
\* interpreter is not invoked
C16_PathDirPrefix ==
    (pc = "exit" /\ HasRun(program) /\ program.ok /\ Mode \in {"--path", "--dir", "--prefix"})
        => /\ command = NotRun
           /\ IF Len(ResolvedPath) >= Level
              THEN out = Ok(NthParent(ResolvedPath, Level))
              ELSE ~out.ok

----------------------------------------------------------------------------
(* Shim exclusion at the top level: C17 *)

\* the shim of the root that Pyenv::new found
RootShim == Join(Join(root.val.root, "shims"), "python")

\* C17: when Python::new falls back to the system search and a pyenv root
\* exists whose shim is a valid executable, the system interpreter it returns
\* is not the shim, under whatever path it is found
C17_FallbackSkipsShim ==
    ( /\ HasRun(python) /\ python.ok /\ python.val.kind = "System"
      /\ HasRun(root) /\ root.ok
      /\ Exists(RootShim) /\ IsExecutable(RootShim) )
    => fs[python.val.python.path].ino # fs[RootShim].ino

----------------------------------------------------------------------------
(* Stage order of Pyenv::new: C18 *)

\* <root>/versions/<version>/bin/python
BuiltFrom(r, v) ==
    r.root \o <<"versions">> \o (IF v.version = "" THEN <<>> ELSE <<v.version>>)
           \o <<"bin", "python">>

\* C18: the version is looked up only after the root was found and the
\* executable only after the version was found; the error of Pyenv::new names
\* the first stage that failed and no later stage has run; a Pyenv exists
\* only when the three stages succeeded, and then it holds that root, that
\* version and the interpreter path built from them
C18_StagesInOrder ==
    /\ HasRun(version) => (HasRun(root) /\ root.ok)
    /\ HasRun(python_path) => (HasRun(version) /\ version.some)
    /\ HasRun(pyenv) =>
          /\ HasRun(root)
          /\ IF ~root.ok
             THEN /\ ~pyenv.ok /\ pyenv.err.kind = "NoRoot"
                  /\ ~HasRun(version) /\ ~HasRun(python_path)
             ELSE IF ~version.some
             THEN /\ ~pyenv.ok /\ pyenv.err.kind = "NoVersion"
                  /\ ~HasRun(python_path)
             ELSE IF ~python_path.ok
             THEN ~pyenv.ok /\ pyenv.err.kind = "NoExecutable"
             ELSE /\ pyenv.ok
                  /\ pyenv.val.root = root.val
                  /\ pyenv.val.version = version.val
                  /\ pyenv.val.python_path = python_path.val
                  /\ python_path.val.path = BuiltFrom(root.val, version.val)
    /\ (~HasRun(pyenv) /\ HasRun(root)) => root.ok
    /\ (~HasRun(pyenv) /\ HasRun(version)) => version.some

\* the root is found and the shell selects version 7, which is not installed:
\* the error is NoExecutable for that root and that version
C18_Witness ==
    /\ HasRun(pyenv) /\ ~pyenv.ok
    /\ pyenv.err.kind = "NoExecutable"
    /\ root.ok /\ version.some /\ version.val.version = "7"
    /\ pyenv.err.python_path = BuiltFrom(root.val, version.val)
    /\ ~Exists(pyenv.err.python_path)

====
